---- MODULE Spec2Model ----
(***************************************************************************)
(* Model of src/quadriga/metadata/extract_from_lernziele.py: extraction of *)
(* learning objectives from Markdown admonition blocks, validation and     *)
(* default-filling of their metadata, and the merge into metadata.yml.     *)
(*                                                                         *)
(* Python str values are TLA+ strings; TLC evaluates Len, SubSeq, Head,    *)
(* Tail and \o on them, so the text functions are computed character by    *)
(* character as the code computes them.  A Python dict is a function whose *)
(* DOMAIN is its key set.                                                  *)
(***************************************************************************)
EXTENDS Naturals, Sequences, FiniteSets, TLC

VARIABLES
    fn,            \* which function the call specifications have applied ("none" before)
    arg,           \* the argument of that call
    ret,           \* the value it returned
    srcFile,       \* the Lernziele Markdown file of the repository
    metadataFile,  \* metadata.yml on disk
    reportFile,    \* learning-objectives-validation.txt on disk
    run            \* what the last run of the merge did

vars == <<fn, arg, ret, srcFile, metadataFile, reportFile, run>>

(***************************************************************************)
(* Strings                                                                 *)
(***************************************************************************)
\* The characters str.isspace() / the regex class \s accept, as far as the
\* inputs below use them.
Whitespace == {" ", "\n", "\t"}

CharAt(s, i) == SubSeq(s, i, i)

DropFirst(s, n) == SubSeq(s, n + 1, Len(s))

StartsWith(s, p) == Len(s) >= Len(p) /\ SubSeq(s, 1, Len(p)) = p

\* Smallest and largest member of a non-empty set of numbers
Min(S) == CHOOSE i \in S : \A j \in S : i <= j

\* Length of the run of whitespace that starts at position i of s.
RECURSIVE WsRunAt(_, _)
WsRunAt(s, i) ==
    IF i <= Len(s) /\ CharAt(s, i) \in Whitespace THEN 1 + WsRunAt(s, i + 1) ELSE 0

WsRun(s) == WsRunAt(s, 1)

\* Position of the first whitespace of s, Len(s) + 1 if there is none.
FirstWhitespace(s) ==
    LET hits == {i \in 1..Len(s) : CharAt(s, i) \in Whitespace}
    IN  IF hits = {} THEN Len(s) + 1 ELSE Min(hits)

\* Length of the run of whitespace that ends at position i of s.
RECURSIVE WsRunBefore(_, _)
WsRunBefore(s, i) ==
    IF i >= 1 /\ CharAt(s, i) \in Whitespace THEN 1 + WsRunBefore(s, i - 1) ELSE 0

\* str.lstrip(), str.rstrip(), str.strip()
LStrip(s) == DropFirst(s, WsRun(s))

RStrip(s) == SubSeq(s, 1, Len(s) - WsRunBefore(s, Len(s)))

Strip(s) == RStrip(LStrip(s))

\* Position of the first occurrence of the non-empty string p in s, 0 if none.
Find(s, p) ==
    LET hits == {i \in 1..(Len(s) + 1 - Len(p)) : SubSeq(s, i, i + Len(p) - 1) = p}
    IN  IF hits = {} THEN 0 ELSE Min(hits)

\* str.split(sep) for a one-character separator
RECURSIVE Split(_, _)
Split(s, sep) ==
    LET i == Find(s, sep)
    IN  IF i = 0 THEN <<s>>
        ELSE <<SubSeq(s, 1, i - 1)>> \o Split(DropFirst(s, i), sep)

UpperChars == "ABCDEFGHIJKLMNOPQRSTUVWXYZ"
LowerChars == "abcdefghijklmnopqrstuvwxyz"

LowerChar(c) ==
    LET i == Find(UpperChars, c) IN IF i = 0 THEN c ELSE CharAt(LowerChars, i)

\* str.lower(), the string being mapped half by half
RECURSIVE Lower(_)
Lower(s) ==
    IF Len(s) <= 1 THEN LowerChar(s)
    ELSE Lower(SubSeq(s, 1, Len(s) \div 2)) \o Lower(DropFirst(s, Len(s) \div 2))

\* str.replace(' ', '-')
RECURSIVE ReplaceSpaceByDash(_)
ReplaceSpaceByDash(s) ==
    LET i == Find(s, " ")
    IN  IF i = 0 THEN s
        ELSE SubSeq(s, 1, i - 1) \o "-" \o ReplaceSpaceByDash(DropFirst(s, i))

\* s[:n]
Truncate(s, n) == IF Len(s) <= n THEN s ELSE SubSeq(s, 1, n)

(***************************************************************************)
(* Dicts                                                                   *)
(***************************************************************************)
\* An optional value (None or a value) is a sequence of no or one element.
None == <<>>

Some(v) == <<v>>

EmptyDict == [k \in {} |-> ""]

DictSet(d, k, v) == [x \in (DOMAIN d) \cup {k} |-> IF x = k THEN v ELSE d[x]]

\* dict.update(e)
DictUpdate(d, e) ==
    [x \in (DOMAIN d) \cup (DOMAIN e) |-> IF x \in DOMAIN e THEN e[x] ELSE d[x]]

\* not d.get(k), for a dict of strings
Missing(d, k) == k \notin DOMAIN d \/ d[k] = ""

(***************************************************************************)
(* Default values for missing metadata                                     *)
(***************************************************************************)
DEFAULT_COMPETENCY == "nicht anwendbar"
DEFAULT_BLOOMS == "nicht anwendbar"
DEFAULT_DATA_FLOW == "nicht anwendbar"

(***************************************************************************)
(* normalize_whitespace: re.sub(r"\s+", " ", text).strip()                 *)
(***************************************************************************)
\* re.sub(r"\s+", " ", text): every maximal run of whitespace becomes one space
RECURSIVE CollapseWhitespace(_)
CollapseWhitespace(text) ==
    IF text = "" THEN ""
    ELSE IF Head(text) \in Whitespace
         THEN " " \o CollapseWhitespace(DropFirst(text, WsRun(text)))
         ELSE SubSeq(text, 1, FirstWhitespace(text) - 1)
              \o CollapseWhitespace(DropFirst(text, FirstWhitespace(text) - 1))

\* mutant: the runs are collapsed but the ends are not trimmed
normalize_whitespace_nostrip(text) == CollapseWhitespace(text)

normalize_whitespace(text) == Strip(CollapseWhitespace(text))

(***************************************************************************)
(* parse_metadata_comment                                                  *)
(***************************************************************************)
\* re.sub(r'<!--\s*|\s*-->', '', comment): scanning left to right, at each
\* position the first alternative ("<!--" and the whitespace after it) is
\* tried, then the second (whitespace directly followed by "-->").
\* Whether p occurs in s at position i
OccursAt(s, i, p) == i + Len(p) - 1 <= Len(s) /\ SubSeq(s, i, i + Len(p) - 1) = p

\* Length of the match of <!--\s*|\s*--> at position i of s, 0 for no match
MarkerAt(s, i) ==
    IF OccursAt(s, i, "<!--") THEN 4 + WsRunAt(s, i + 4)
    ELSE IF OccursAt(s, i + WsRunAt(s, i), "-->") THEN WsRunAt(s, i) + 3
    ELSE 0

RECURSIVE RemoveCommentMarkers(_)
RemoveCommentMarkers(s) ==
    LET hits == {i \in 1..Len(s) : MarkerAt(s, i) # 0}
    IN  IF hits = {} THEN s
        ELSE LET i == Min(hits)
             IN  SubSeq(s, 1, i - 1)
                 \o RemoveCommentMarkers(DropFirst(s, i - 1 + MarkerAt(s, i)))

\* mutant: every key is stored, not only the two known ones
ParsePart_any_key(metadata, rawPart) ==
    LET part  == Strip(rawPart)
        colon == Find(part, ":")
        key   == ReplaceSpaceByDash(Lower(Strip(SubSeq(part, 1, colon - 1))))
        value == Strip(DropFirst(part, colon))
    IN  IF colon = 0 THEN metadata
        ELSE IF value = "" THEN metadata
        ELSE IF key = "blooms" THEN DictSet(metadata, "blooms-category", value)
        ELSE DictSet(metadata, key, value)

\* One pass of the loop body over a part, metadata being the dict so far.
ParsePart(metadata, rawPart) ==
    LET part  == Strip(rawPart)
        colon == Find(part, ":")
        key   == ReplaceSpaceByDash(Lower(Strip(SubSeq(part, 1, colon - 1))))
        value == Strip(DropFirst(part, colon))
    IN  IF colon = 0 THEN metadata
        ELSE IF value = "" THEN metadata
        ELSE IF key = "blooms" THEN DictSet(metadata, "blooms-category", value)
        ELSE IF key = "competency" THEN DictSet(metadata, "competency", value)
        ELSE metadata

RECURSIVE ParseParts(_, _)
ParseParts(metadata, parts) ==
    IF parts = <<>> THEN metadata
    ELSE ParseParts(ParsePart(metadata, Head(parts)), Tail(parts))

parse_metadata_comment(comment) ==
    ParseParts(EmptyDict, Split(RemoveCommentMarkers(comment), "|"))

(***************************************************************************)
(* derive_data_flow                                                        *)
(***************************************************************************)
\* mutant: the labels of the fourth and the fifth stage are swapped
derive_data_flow_swapped(competency) ==
    LET c == normalize_whitespace(competency)
    IN  IF c = "Orientierungswissen" THEN "übergreifend"
        ELSE IF StartsWith(c, "1.") THEN "1 Planung"
        ELSE IF StartsWith(c, "2.") THEN "2 Erhebung und Aufbereitung"
        ELSE IF StartsWith(c, "3.") THEN "3 Management"
        ELSE IF StartsWith(c, "4.") THEN "5 Publikation und Nachnutzung"
        ELSE IF StartsWith(c, "5.") THEN "4 Analyse"
        ELSE DEFAULT_DATA_FLOW

derive_data_flow(competency) ==
    LET competency_normalized == normalize_whitespace(competency)
    IN  IF competency_normalized = "Orientierungswissen" THEN "übergreifend"
        ELSE IF StartsWith(competency_normalized, "1.") THEN "1 Planung"
        ELSE IF StartsWith(competency_normalized, "2.")
             THEN "2 Erhebung und Aufbereitung"
        ELSE IF StartsWith(competency_normalized, "3.") THEN "3 Management"
        ELSE IF StartsWith(competency_normalized, "4.") THEN "4 Analyse"
        ELSE IF StartsWith(competency_normalized, "5.")
             THEN "5 Publikation und Nachnutzung"
        ELSE DEFAULT_DATA_FLOW

(***************************************************************************)
(* validate_objective_metadata: the dict is mutated in place and the list  *)
(* of missing fields returned; here both are returned.                     *)
(***************************************************************************)
\* mutant: a missing data-flow is reported as missing too
validate_objective_metadata_reporting_data_flow(objective_data) ==
    LET m1 == IF Missing(objective_data, "competency")
              THEN <<"competency">> ELSE <<>>
        d1 == IF Missing(objective_data, "competency")
              THEN DictSet(objective_data, "competency", DEFAULT_COMPETENCY)
              ELSE objective_data
        m2 == IF Missing(d1, "blooms-category")
              THEN Append(m1, "blooms-category") ELSE m1
        d2 == IF Missing(d1, "blooms-category")
              THEN DictSet(d1, "blooms-category", DEFAULT_BLOOMS)
              ELSE d1
        m3 == IF Missing(d2, "data-flow") THEN Append(m2, "data-flow") ELSE m2
        d3 == IF Missing(d2, "data-flow")
              THEN DictSet(d2, "data-flow", derive_data_flow(d2["competency"]))
              ELSE d2
    IN  [objective_data |-> d3, missing_fields |-> m3]

validate_objective_metadata(objective_data) ==
    LET m1 == IF Missing(objective_data, "competency")
              THEN <<"competency">> ELSE <<>>
        d1 == IF Missing(objective_data, "competency")
              THEN DictSet(objective_data, "competency", DEFAULT_COMPETENCY)
              ELSE objective_data
        m2 == IF Missing(d1, "blooms-category")
              THEN Append(m1, "blooms-category") ELSE m1
        d2 == IF Missing(d1, "blooms-category")
              THEN DictSet(d1, "blooms-category", DEFAULT_BLOOMS)
              ELSE d1
        d3 == IF Missing(d2, "data-flow")
              THEN DictSet(d2, "data-flow", derive_data_flow(d2["competency"]))
              ELSE d2
    IN  [objective_data |-> d3, missing_fields |-> m2]

(***************************************************************************)
(* extract_admonition_blocks                                               *)
(*                                                                         *)
(* The content is represented by what the regular expressions find in it:  *)
(* the sequence of matches of admonition_pattern in document order, each   *)
(* with its title line (group 1) and, for its body (group 3),              *)
(*   start_marker   group 1 of the first START marker, None without one,   *)
(*   learning_goal  group 1 of the learning-goal comment, None without,    *)
(*   items          the matches of objective_pattern in the body without   *)
(*                  its START/END markers: text (group 1) and comment      *)
(*                  (group 2, None when the optional group did not match). *)
(* The title line and every captured group are strings, processed below as *)
(* the code processes them.                                                *)
(***************************************************************************)
\* re.match(r'\[(.+?)\]\((.+?)\)(\s*\(\*(.+?)\*\))?', title_line): the
\* groups 1, 2 and 4 (None for 4 when the optional group does not match),
\* or None when the line does not match.  "." matches no newline.
title_match(title_line) ==
    LET n == Len(title_line)
        NoNewline(a, b) == \A k \in a..b : CharAt(title_line, k) # "\n"
        \* group 2 when group 1 is title_line[2..i]
        Ends2(i) == {j \in (i + 3)..(n - 1) :
                        /\ CharAt(title_line, j + 1) = ")"
                        /\ NoNewline(i + 3, j)}
        Ends1 == {i \in 2..n :
                        /\ StartsWith(DropFirst(title_line, i), "](")
                        /\ NoNewline(2, i)
                        /\ Ends2(i) # {}}
    IN  IF n = 0 \/ Head(title_line) # "[" \/ Ends1 = {} THEN None
        ELSE LET i    == Min(Ends1)
                 j    == Min(Ends2(i))
                 rest == DropFirst(title_line, j + 1)
                 open == DropFirst(rest, WsRun(rest))
                 note == DropFirst(open, 2)
                 Ends4 == {k \in 1..Len(note) :
                              /\ StartsWith(DropFirst(note, k), "*)")
                              /\ \A m \in 1..k : CharAt(note, m) # "\n"}
             IN  Some([g1 |-> SubSeq(title_line, 2, i),
                       g2 |-> SubSeq(title_line, i + 3, j),
                       g4 |-> IF StartsWith(open, "(*") /\ Ends4 # {}
                              THEN Some(SubSeq(note, 1, Min(Ends4)))
                              ELSE None])

\* Lines 174-189 for one match of objective_pattern: the objective's dict
\* and the names of the fields that were missing.
ParseObjective(item) ==
    LET objective_text == normalize_whitespace(item.text)
        base == [k \in {"learning-objective"} |-> objective_text]
        objective_data ==
            IF item.comment # None /\ item.comment[1] # ""
            THEN DictUpdate(base, parse_metadata_comment(item.comment[1]))
            ELSE base
    IN  validate_objective_metadata(objective_data)

RECURSIVE ParseObjectives(_)
ParseObjectives(items) ==
    IF items = <<>> THEN <<>>
    ELSE <<ParseObjective(Head(items))>> \o ParseObjectives(Tail(items))

\* The validation issues of one block: one per objective with missing fields.
RECURSIVE IssuesOf(_, _, _)
IssuesOf(section_title, items, parsed) ==
    IF items = <<>> THEN <<>>
    ELSE (IF Head(parsed).missing_fields # <<>>
          THEN <<[section |-> section_title,
                  objective |-> Truncate(normalize_whitespace(Head(items).text), 60),
                  missing_fields |-> Head(parsed).missing_fields]>>
          ELSE <<>>)
         \o IssuesOf(section_title, Tail(items), Tail(parsed))

RECURSIVE ObjectiveDicts(_)
ObjectiveDicts(parsed) ==
    IF parsed = <<>> THEN <<>>
    ELSE <<Head(parsed).objective_data>> \o ObjectiveDicts(Tail(parsed))

\* block_data of lines 192-205
BlockData(title, body, objectives) ==
    LET learning_goal ==
            IF body.learning_goal = None THEN ""
            ELSE normalize_whitespace(body.learning_goal[1])
        chapter ==
            IF body.start_marker = None THEN "" ELSE Strip(body.start_marker[1])
        b0 == [k \in {"section-title", "section-reference", "objectives"} |->
                  IF k = "section-title" THEN title.g1
                  ELSE IF k = "section-reference" THEN title.g2
                  ELSE objectives]
        b1 == IF learning_goal # "" THEN DictSet(b0, "learning-goal", learning_goal)
              ELSE b0
        b2 == IF title.g4 # None /\ title.g4[1] # ""
              THEN DictSet(b1, "section-note", title.g4[1]) ELSE b1
    IN  IF chapter # "" THEN DictSet(b2, "chapter", chapter) ELSE b2

\* mutant: a block without a chapter marker is not retained
ExtractMatch_requiring_chapter(match) ==
    LET tm == title_match(Strip(match.title_line))
    IN  IF tm = None THEN [blocks |-> <<>>, issues |-> <<>>]
        ELSE LET parsed     == ParseObjectives(match.body.items)
                 objectives == ObjectiveDicts(parsed)
                 block      == BlockData(tm[1], match.body, objectives)
             IN  [blocks |-> IF objectives # <<>> /\ "chapter" \in DOMAIN block
                             THEN <<block>> ELSE <<>>,
                  issues |-> IssuesOf(tm[1].g1, match.body.items, parsed)]

\* One pass of the loop of lines 133-219 over a match: what it appends to
\* blocks and to validation_issues.
ExtractMatch(match) ==
    LET tm == title_match(Strip(match.title_line))
    IN  IF tm = None THEN [blocks |-> <<>>, issues |-> <<>>]
        ELSE LET parsed     == ParseObjectives(match.body.items)
                 objectives == ObjectiveDicts(parsed)
             IN  [blocks |-> IF objectives # <<>>
                             THEN <<BlockData(tm[1], match.body, objectives)>>
                             ELSE <<>>,
                  issues |-> IssuesOf(tm[1].g1, match.body.items, parsed)]

RECURSIVE extract_admonition_blocks(_)
extract_admonition_blocks(content) ==
    IF content = <<>> THEN [blocks |-> <<>>, issues |-> <<>>]
    ELSE LET first == ExtractMatch(Head(content))
             rest  == extract_admonition_blocks(Tail(content))
         IN  [blocks |-> first.blocks \o rest.blocks,
              issues |-> first.issues \o rest.issues]

(***************************************************************************)
(* Inputs of the call specification                                        *)
(***************************************************************************)
MaxTextLen == 4
MaxCompetencyLen == 3
MaxParts == 2
MaxBlocks == 3

\* All strings of at most n characters of the alphabet A
RECURSIVE StringsUpTo(_, _)
StringsUpTo(A, n) ==
    IF n = 0 THEN {""}
    ELSE LET S == StringsUpTo(A, n - 1) IN S \cup {s \o c : s \in S, c \in A}

\* All sequences of at most n elements of S
RECURSIVE SeqsUpTo(_, _)
SeqsUpTo(S, n) ==
    IF n = 0 THEN {<<>>}
    ELSE LET T == SeqsUpTo(S, n - 1) IN T \cup {Append(t, x) : t \in T, x \in S}

Texts == StringsUpTo({"a", " ", "\n", "\t"}, MaxTextLen)

Competencies ==
    StringsUpTo({"1", "4", "5", "6", ".", " ", "x"}, MaxCompetencyLen)
    \cup {p \o "Orientierungswissen" \o q :
             p \in {"", " ", "\n ", "x", "1."}, q \in {"", " ", " \t", "x", "."}}
    \cup {d \o r : d \in {"0", "1", "2", "3", "4", "5", "6", "9", " 3", "12"},
                   r \in {". Planung", ".Something", " Planung", ".", "", ",5"}}
    \cup {DEFAULT_COMPETENCY, "orientierungswissen", "Orientierungs wissen",
          "Orientierungs  wissen"}

\* The parts a metadata comment is made of: the text as written, and beside
\* it what the writer means by it (key and value; key "" for a part that is
\* no key: value pair).
Parts == {
    [text |-> "competency: 2.Something", key |-> "competency", value |-> "2.Something"],
    [text |-> " Competency :  Orientierungswissen ", key |-> "competency",
        value |-> "Orientierungswissen"],
    [text |-> "competency: 4. Analyse: Daten", key |-> "competency",
        value |-> "4. Analyse: Daten"],
    [text |-> " competency:  ", key |-> "competency", value |-> ""],
    [text |-> " blooms: Analyze ", key |-> "blooms", value |-> "Analyze"],
    [text |-> "BLOOMS:Apply", key |-> "blooms", value |-> "Apply"],
    [text |-> "blooms:", key |-> "blooms", value |-> ""],
    [text |-> " data-flow: 4 Analyse ", key |-> "data-flow", value |-> "4 Analyse"],
    [text |-> "Data Flow: 1 Planung", key |-> "data-flow", value |-> "1 Planung"],
    [text |-> "level: hoch", key |-> "level", value |-> "hoch"],
    [text |-> "blooms category: Apply", key |-> "blooms-category", value |-> "Apply"],
    [text |-> " kein Doppelpunkt ", key |-> "", value |-> ""],
    [text |-> " ", key |-> "", value |-> ""]}

\* '|'.join of the parts' texts
RECURSIVE JoinParts(_)
JoinParts(parts) ==
    IF parts = <<>> THEN ""
    ELSE IF Len(parts) = 1 THEN parts[1].text
    ELSE parts[1].text \o "|" \o JoinParts(Tail(parts))

\* A numbered item as objective_pattern matches it: its text, and the inline
\* comment made of the given parts (no comment for no parts).
Item(text, parts) ==
    [text |-> text, parts |-> parts,
     comment |-> IF parts = <<>> THEN None ELSE Some(JoinParts(parts))]

ItemTexts == {"Daten  erheben\n   und aufbereiten", "Formate nennen"}

Items == {Item(t, ps) : t \in ItemTexts, ps \in SeqsUpTo(Parts, MaxParts)}

FullParts ==
    <<[text |-> "competency: 2.Something ", key |-> "competency", value |-> "2.Something"],
      [text |-> " blooms: Analyze", key |-> "blooms", value |-> "Analyze"]>>

BloomsOnly == <<[text |-> "BLOOMS:Apply", key |-> "blooms", value |-> "Apply"]>>

ItemFull == Item("Daten  erheben\n   und aufbereiten", FullParts)
ItemBare == Item("Formate nennen", <<>>)
ItemHalf == Item("Daten publizieren", BloomsOnly)

\* The admonition blocks a document is made of: a match of admonition_pattern
\* and, beside it, what the writer means by its title line (title "" for a
\* title line that is not of the form [title](reference)).
Matches == {
    [title_line |-> "[Lernziele Kapitel 1](#kapitel-1) ", title |-> "Lernziele Kapitel 1",
     body |-> [start_marker |-> Some("Intro"), learning_goal |-> Some("Daten\n  verstehen"),
               items |-> <<ItemFull, ItemBare>>]],
    [title_line |-> "[Lernziele Kapitel 2](kapitel-2.md) (*optional*)", title |-> "Lernziele Kapitel 2",
     body |-> [start_marker |-> Some("Intro"), learning_goal |-> Some("Daten nutzen"),
               items |-> <<ItemHalf>>]],
    [title_line |-> "[Lernziele Kapitel 3](#kapitel-3)", title |-> "Lernziele Kapitel 3",
     body |-> [start_marker |-> Some("Intro"), learning_goal |-> None,
               items |-> <<ItemFull>>]],
    [title_line |-> "[Ohne Kapitel](#ohne)", title |-> "Ohne Kapitel",
     body |-> [start_marker |-> None, learning_goal |-> Some("Daten nutzen"),
               items |-> <<ItemFull>>]],
    [title_line |-> "[Leerer Marker](#leer)", title |-> "Leerer Marker",
     body |-> [start_marker |-> Some(" "), learning_goal |-> None,
               items |-> <<ItemFull>>]],
    [title_line |-> "Lernziele ohne Verweis", title |-> "",
     body |-> [start_marker |-> Some("Intro"), learning_goal |-> None,
               items |-> <<ItemFull>>]],
    [title_line |-> "[Kein Verweis]()", title |-> "",
     body |-> [start_marker |-> Some("Analyse"), learning_goal |-> None,
               items |-> <<ItemBare>>]],
    [title_line |-> "[Ohne Ziele](#nichts)", title |-> "Ohne Ziele",
     body |-> [start_marker |-> Some("Intro"), learning_goal |-> Some("Daten nutzen"),
               items |-> <<>>]],
    [title_line |-> "[Lernziele Analyse](#analyse)", title |-> "Lernziele Analyse",
     body |-> [start_marker |-> Some("Analyse"), learning_goal |-> None,
               items |-> <<ItemFull>>]]}

Contents == SeqsUpTo(Matches, MaxBlocks)

\* The blocks of the documents the merge is run on: those of Matches that
\* differ in what the merge makes of them.
MergedMatches == {m \in Matches : m.title \notin {"", "Leerer Marker"}}

CallArgs ==
    {[call |-> "normalize_whitespace", text |-> t] : t \in Texts}
    \cup {[call |-> "derive_data_flow", competency |-> c] : c \in Competencies}
    \cup {[call |-> "objective", item |-> i] : i \in Items}
    \cup {[call |-> "extract_admonition_blocks", content |-> c] : c \in Contents}

(***************************************************************************)
(* The call specification: one of the functions is applied to an argument  *)
(***************************************************************************)
Idle == "idle"

InitCalls ==
    /\ fn = "none"
    /\ arg \in CallArgs
    /\ ret = [none |-> TRUE]
    /\ srcFile = Idle
    /\ metadataFile = Idle
    /\ reportFile = Idle
    /\ run = Idle

Call_normalize_whitespace ==
    /\ fn = "none"
    /\ arg.call = "normalize_whitespace"
    /\ fn' = arg.call
    /\ ret' = [text |-> normalize_whitespace(arg.text)]
    /\ UNCHANGED <<arg, srcFile, metadataFile, reportFile, run>>

Call_derive_data_flow ==
    /\ fn = "none"
    /\ arg.call = "derive_data_flow"
    /\ fn' = arg.call
    /\ ret' = [data_flow |-> derive_data_flow(arg.competency)]
    /\ UNCHANGED <<arg, srcFile, metadataFile, reportFile, run>>

Call_objective ==
    /\ fn = "none"
    /\ arg.call = "objective"
    /\ fn' = arg.call
    /\ ret' = ParseObjective(arg.item)
    /\ UNCHANGED <<arg, srcFile, metadataFile, reportFile, run>>

Call_extract_admonition_blocks ==
    /\ fn = "none"
    /\ arg.call = "extract_admonition_blocks"
    /\ fn' = arg.call
    /\ ret' = extract_admonition_blocks(arg.content)
    /\ UNCHANGED <<arg, srcFile, metadataFile, reportFile, run>>

NextCalls ==
    \/ Call_normalize_whitespace
    \/ Call_derive_data_flow
    \/ Call_objective
    \/ Call_extract_admonition_blocks

SpecCalls == InitCalls /\ [][NextCalls]_vars

(***************************************************************************)
(* generate_validation_report: the text of the report (without the        *)
(* pictograph each of its two first lines starts with in the source)       *)
(***************************************************************************)
\* ', '.join(fields)
RECURSIVE JoinComma(_)
JoinComma(fields) ==
    IF fields = <<>> THEN ""
    ELSE IF Len(fields) = 1 THEN fields[1]
    ELSE fields[1] \o ", " \o JoinComma(Tail(fields))

\* The entries of issues i, i+1, ... (entries are numbered from 1)
RECURSIVE ReportEntries(_, _)
ReportEntries(validation_issues, i) ==
    IF i > Len(validation_issues) THEN ""
    ELSE ToString(i) \o ". Section: " \o validation_issues[i].section \o "\n"
         \o "   Objective: " \o validation_issues[i].objective \o "...\n"
         \o "   Missing: " \o JoinComma(validation_issues[i].missing_fields) \o "\n\n"
         \o ReportEntries(validation_issues, i + 1)

generate_validation_report(validation_issues) ==
    IF validation_issues = <<>>
    THEN "All learning objectives have complete metadata!\n"
    ELSE "Found " \o ToString(Len(validation_issues))
         \o " learning objectives with missing metadata:\n\n"
         \o ReportEntries(validation_issues, 1)
         \o "\nTo fix: Add HTML comments after each objective:\n"
         \o "<!-- competency: X | blooms: Y -->\n"

(***************************************************************************)
(* extract_from_lernziele_file: a file that cannot be read gives no        *)
(* sections and no issues.                                                 *)
(***************************************************************************)
extract_from_lernziele_file(md_file) ==
    IF md_file.readable THEN extract_admonition_blocks(md_file.content)
    ELSE [blocks |-> <<>>, issues |-> <<>>]

(***************************************************************************)
(* merge_learning_objectives_into_metadata                                 *)
(*                                                                         *)
(* A YAML value is a record with its kind: "none" (null, and what          *)
(* load_yaml_file returns for a file it cannot load), "str", "list" (with  *)
(* items) or "dict" (with dict, the mapping).                              *)
(***************************************************************************)
YamlNone == [kind |-> "none"]
YamlStr(v) == [kind |-> "str", value |-> v]
YamlList(items) == [kind |-> "list", items |-> items]
YamlDict(d) == [kind |-> "dict", dict |-> d]

\* mutant: a section's objectives replace those of its chapter
RECURSIVE BuildChapterMaps_overwriting(_, _)
BuildChapterMaps_overwriting(maps, sections) ==
    IF sections = <<>> THEN maps
    ELSE LET section == Head(sections)
             chapter == IF "chapter" \in DOMAIN section THEN section["chapter"] ELSE ""
             objs    == DictSet(maps.objectives, chapter, section["objectives"])
             goal    == IF "learning-goal" \in DOMAIN section
                        THEN section["learning-goal"] ELSE ""
             goals   == IF goal = "" THEN maps.goals
                        ELSE IF chapter \in DOMAIN maps.goals /\ maps.goals[chapter] # goal
                             THEN maps.goals
                             ELSE DictSet(maps.goals, chapter, goal)
         IN  IF chapter = "" THEN BuildChapterMaps_overwriting(maps, Tail(sections))
             ELSE BuildChapterMaps_overwriting([objectives |-> objs, goals |-> goals],
                                               Tail(sections))

\* mutant: the last learning goal of a chapter is kept, not the first
RECURSIVE BuildChapterMaps_last_goal(_, _)
BuildChapterMaps_last_goal(maps, sections) ==
    IF sections = <<>> THEN maps
    ELSE LET section == Head(sections)
             chapter == IF "chapter" \in DOMAIN section THEN section["chapter"] ELSE ""
             old     == IF chapter \in DOMAIN maps.objectives
                        THEN maps.objectives[chapter] ELSE <<>>
             objs    == DictSet(maps.objectives, chapter, old \o section["objectives"])
             goal    == IF "learning-goal" \in DOMAIN section
                        THEN section["learning-goal"] ELSE ""
             goals   == IF goal = "" THEN maps.goals
                        ELSE DictSet(maps.goals, chapter, goal)
         IN  IF chapter = "" THEN BuildChapterMaps_last_goal(maps, Tail(sections))
             ELSE BuildChapterMaps_last_goal([objectives |-> objs, goals |-> goals],
                                             Tail(sections))

\* mutant: a section without a chapter is not skipped
RECURSIVE BuildChapterMaps_keeping_untagged(_, _)
BuildChapterMaps_keeping_untagged(maps, sections) ==
    IF sections = <<>> THEN maps
    ELSE LET section == Head(sections)
             chapter == IF "chapter" \in DOMAIN section THEN section["chapter"] ELSE ""
             old     == IF chapter \in DOMAIN maps.objectives
                        THEN maps.objectives[chapter] ELSE <<>>
             objs    == DictSet(maps.objectives, chapter, old \o section["objectives"])
             goal    == IF "learning-goal" \in DOMAIN section
                        THEN section["learning-goal"] ELSE ""
             goals   == IF goal = "" THEN maps.goals
                        ELSE IF chapter \in DOMAIN maps.goals /\ maps.goals[chapter] # goal
                             THEN maps.goals
                             ELSE DictSet(maps.goals, chapter, goal)
         IN  BuildChapterMaps_keeping_untagged([objectives |-> objs, goals |-> goals],
                                               Tail(sections))

\* Lines 360-375: the chapter -> objectives and chapter -> learning-goal
\* dicts after the sections from the given one on, starting from maps.
RECURSIVE BuildChapterMaps(_, _)
BuildChapterMaps(maps, sections) ==
    IF sections = <<>> THEN maps
    ELSE LET section == Head(sections)
             chapter == IF "chapter" \in DOMAIN section THEN section["chapter"] ELSE ""
             old     == IF chapter \in DOMAIN maps.objectives
                        THEN maps.objectives[chapter] ELSE <<>>
             objs    == DictSet(maps.objectives, chapter, old \o section["objectives"])
             goal    == IF "learning-goal" \in DOMAIN section
                        THEN section["learning-goal"] ELSE ""
             goals   == IF goal = "" THEN maps.goals
                        ELSE IF chapter \in DOMAIN maps.goals /\ maps.goals[chapter] # goal
                             THEN maps.goals
                             ELSE DictSet(maps.goals, chapter, goal)
         IN  IF chapter = "" THEN BuildChapterMaps(maps, Tail(sections))
             ELSE BuildChapterMaps([objectives |-> objs, goals |-> goals],
                                   Tail(sections))

\* Lines 379-385 for one entry of metadata["chapters"]
MergeChapter(chapter, maps) ==
    IF chapter.kind # "dict" THEN chapter
    ELSE LET chapter_title ==
                 IF "title" \in DOMAIN chapter.dict THEN chapter.dict["title"] ELSE ""
         IN  IF chapter_title \notin DOMAIN maps.objectives THEN chapter
             ELSE YamlDict(
                    DictSet(
                      DictSet(chapter.dict, "learning-goal",
                              IF chapter_title \in DOMAIN maps.goals
                              THEN maps.goals[chapter_title] ELSE "TODO"),
                      "learning-objectives", maps.objectives[chapter_title]))

\* Lines 378-385: the metadata after the loop over its chapters (a metadata
\* without the key has no chapters to loop over and stays as it is, and so
\* does one whose chapters are a string or a mapping with string keys: none
\* of the values iterated is a dict).
MergeChapters(metadata, maps) ==
    IF "chapters" \notin DOMAIN metadata.dict THEN metadata
    ELSE IF metadata.dict["chapters"].kind # "list" THEN metadata
    ELSE LET chapters == metadata.dict["chapters"]
         IN  YamlDict(DictSet(metadata.dict, "chapters",
               YamlList([i \in 1..Len(chapters.items) |->
                            MergeChapter(chapters.items[i], maps)])))

\* for chapter in metadata.get("chapters", []) raises a TypeError for the
\* value None; a string or a mapping is iterated, over characters or keys.
ChaptersIterable(metadata) ==
    "chapters" \in DOMAIN metadata.dict => metadata.dict["chapters"].kind # "none"

NoMaps == [objectives |-> [c \in {} |-> <<>>], goals |-> [c \in {} |-> ""]]

\* What a run did: whether it found a source file, what became of the
\* report ("untouched", "failed" for an OSError, "written", "removed",
\* "absent" when there was nothing to remove), whether load_yaml_file was
\* called, what save_yaml_file returned ("not_called", "ok", "failed"),
\* whether the except clause of line 394 was reached, the return value and
\* the exit code of lines 401-402.
NoRun ==
    [result |-> "none", exit_code |-> 0, found |-> FALSE, report |-> "untouched",
     loaded |-> FALSE, save |-> "not_called", raised |-> FALSE,
     sections |-> <<>>, issues |-> <<>>,
     before |-> YamlNone, metadata |-> YamlNone, reportBefore |-> None]

\* mutant: an empty mapping is not rejected
MetadataRejected_unless_empty(metadata) == metadata.kind # "dict"

\* not metadata or not isinstance(metadata, dict)
MetadataRejected(metadata) == metadata.kind # "dict" \/ metadata.dict = EmptyDict

\* The record of a run that returned success (True or False) with the facts
\* given, before the files' contents when it started.
RunRecord(success, facts) ==
    [k \in DOMAIN NoRun |->
        IF k = "result" THEN IF success THEN "True" ELSE "False"
        ELSE IF k = "exit_code" THEN IF success THEN 0 ELSE 1
        ELSE IF k = "before" THEN metadataFile
        ELSE IF k = "reportBefore" THEN reportFile
        ELSE IF k \in DOMAIN facts THEN facts[k]
        ELSE NoRun[k]]

\* mutant: an old report is not removed
ReportAfter_keeping(validation_issues) ==
    IF validation_issues # <<>>
    THEN Some(generate_validation_report(validation_issues))
    ELSE reportFile

\* Lines 333-345: the report is written when there are issues and removed,
\* if it exists, when there are none.
ReportAfter(validation_issues) ==
    IF validation_issues # <<>>
    THEN Some(generate_validation_report(validation_issues))
    ELSE None

\* Lines 351-392: the metadata is loaded, merged and saved; save_yaml_file
\* returns True or False.
LoadMergeSave(extracted, report) ==
    LET facts == [found |-> TRUE, sections |-> extracted.blocks,
                  issues |-> extracted.issues, report |-> report, loaded |-> TRUE]
    IN  IF MetadataRejected(metadataFile)
        THEN /\ run' = RunRecord(FALSE, facts)
             /\ UNCHANGED metadataFile
        ELSE IF ~ChaptersIterable(metadataFile)
        THEN /\ run' = RunRecord(FALSE, DictSet(facts, "raised", TRUE))
             /\ UNCHANGED metadataFile
        ELSE \E maps \in {BuildChapterMaps(NoMaps, extracted.blocks)} :
             \E merged \in {MergeChapters(metadataFile, maps)} :
             \E saveOk \in BOOLEAN :
                IF saveOk
                THEN /\ run' = RunRecord(TRUE, DictSet(DictSet(facts, "save", "ok"),
                                                       "metadata", merged))
                     /\ metadataFile' = merged
                ELSE /\ run' = RunRecord(FALSE, DictSet(DictSet(facts, "save", "failed"),
                                                        "metadata", merged))
                     /\ UNCHANGED metadataFile

\* One run of merge_learning_objectives_into_metadata.  Writing or removing
\* the report succeeds (reportOk) or raises an OSError.
merge_learning_objectives_into_metadata ==
    IF ~srcFile.exists
    THEN /\ run' = RunRecord(TRUE, [found |-> FALSE])
         /\ UNCHANGED <<reportFile, metadataFile>>
    ELSE \E extracted \in {extract_from_lernziele_file(srcFile)} :
         LET sections == extracted.blocks
             validation_issues == extracted.issues
             report == IF validation_issues # <<>> THEN "written"
                       ELSE IF reportFile # None THEN "removed" ELSE "absent"
         IN  \E reportOk \in IF report = "absent" THEN {TRUE} ELSE BOOLEAN :
             IF ~reportOk
             THEN /\ run' = RunRecord(FALSE,
                               [found |-> TRUE, sections |-> sections,
                                issues |-> validation_issues,
                                report |-> "failed", raised |-> TRUE])
                  /\ UNCHANGED <<reportFile, metadataFile>>
             ELSE /\ reportFile' = ReportAfter(validation_issues)
                  /\ IF sections = <<>>
                     THEN /\ run' = RunRecord(TRUE,
                                       [found |-> TRUE, sections |-> sections,
                                        issues |-> validation_issues,
                                        report |-> report])
                          /\ UNCHANGED metadataFile
                     ELSE LoadMergeSave(extracted, report)

(***************************************************************************)
(* The files a run finds                                                   *)
(***************************************************************************)
NoSourceFile == [exists |-> FALSE, readable |-> FALSE, content |-> <<>>]

SourceFile(readable, content) ==
    [exists |-> TRUE, readable |-> readable, content |-> content]

SrcFiles ==
    {NoSourceFile}
    \cup {SourceFile(TRUE, c) : c \in SeqsUpTo(MergedMatches, MaxBlocks)}
    \cup {SourceFile(FALSE, c) : c \in SeqsUpTo(MergedMatches, 1)}

OldObjectives ==
    <<[k \in {"learning-objective"} |-> "Altes Lernziel"]>>

Chapter(title, author) ==
    YamlDict([k \in {"title", "author"} |-> IF k = "title" THEN title ELSE author])

BookChapters ==
    <<Chapter("Intro", "A. Autorin"),
      YamlStr("Anhang"),
      YamlDict([k \in {"title", "learning-goal", "learning-objectives"} |->
                  IF k = "title" THEN "Analyse"
                  ELSE IF k = "learning-goal" THEN "Altes Ziel"
                  ELSE OldObjectives]),
      YamlDict([k \in {"author"} |-> "B. Autor"]),
      Chapter("", "C. Autorin"),
      YamlDict([k \in {"title", "learning-objectives"} |->
                  IF k = "title" THEN "Schluss" ELSE OldObjectives])>>

Book(chapters) ==
    YamlDict([k \in {"title", "chapters"} |->
                IF k = "title" THEN YamlStr("Buch") ELSE chapters])

MetadataFiles ==
    {YamlNone,
     YamlList(<<YamlStr("Buch")>>),
     YamlDict(EmptyDict),
     YamlDict([k \in {"title"} |-> YamlStr("Buch")]),
     Book(YamlNone),
     Book(YamlList(BookChapters)),
     Book(YamlList(<<Chapter("Intro", "A. Autorin"), Chapter("Intro", "D. Autor")>>))}

(***************************************************************************)
(* Spec: runs of the merge on a repository                                 *)
(***************************************************************************)
Init ==
    /\ fn = "none"
    /\ arg = Idle
    /\ ret = Idle
    /\ srcFile \in SrcFiles
    /\ metadataFile \in MetadataFiles
    /\ reportFile = None
    /\ run = NoRun

MergeRun ==
    /\ merge_learning_objectives_into_metadata
    /\ UNCHANGED <<fn, arg, ret, srcFile>>

Next == MergeRun

Spec == Init /\ [][Next]_vars

(***************************************************************************)
(* SpecRuns: runs of the merge, the Lernziele file being edited, created   *)
(* or removed between them                                                 *)
(***************************************************************************)
EditedSrcFiles ==
    {NoSourceFile}
    \cup {SourceFile(r, c) : r \in BOOLEAN, c \in SeqsUpTo(Matches, 1)}

InitRuns ==
    /\ fn = "none"
    /\ arg = Idle
    /\ ret = Idle
    /\ srcFile \in EditedSrcFiles
    /\ metadataFile \in MetadataFiles
    /\ reportFile = None
    /\ run = NoRun

EditSource ==
    /\ run.result # "none"
    /\ srcFile' \in EditedSrcFiles \ {srcFile}
    /\ run' = NoRun
    /\ UNCHANGED <<fn, arg, ret, metadataFile, reportFile>>

NextRuns == MergeRun \/ EditSource

SpecRuns == InitRuns /\ [][NextRuns]_vars

(***************************************************************************)
(* Properties of the text functions and of the extraction (SpecCalls)      *)
(***************************************************************************)
MetadataFields == {"competency", "blooms-category", "data-flow"}

Range(seq) == {seq[i] : i \in 1..Len(seq)}

\* C8: normalize_whitespace is idempotent, and its result neither starts nor
\* ends with whitespace nor holds two whitespace characters in a row.
C8_NormalizeIdempotent ==
    fn = "normalize_whitespace" =>
        LET r == ret.text
        IN  /\ normalize_whitespace(r) = r
            /\ r # "" => Head(r) \notin Whitespace /\ CharAt(r, Len(r)) \notin Whitespace
            /\ \A i \in 1..(Len(r) - 1) :
                  ~(CharAt(r, i) \in Whitespace /\ CharAt(r, i + 1) \in Whitespace)

\* a text with a run of a space and a newline in it has been normalized
C8_Witness ==
    /\ fn = "normalize_whitespace"
    /\ arg.text = "a \na"
    /\ ret.text = "a a"

\* The data-flow the specification gives for a whitespace-normalized
\* competency n.
StageLabel ==
    [d \in {"1", "2", "3", "4", "5"} |->
        CASE d = "1" -> "1 Planung"
          [] d = "2" -> "2 Erhebung und Aufbereitung"
          [] d = "3" -> "3 Management"
          [] d = "4" -> "4 Analyse"
          [] d = "5" -> "5 Publikation und Nachnutzung"]

DataFlowFor(n) ==
    IF n = "Orientierungswissen" THEN "übergreifend"
    ELSE IF Len(n) >= 2 /\ CharAt(n, 2) = "." /\ CharAt(n, 1) \in DOMAIN StageLabel
         THEN StageLabel[CharAt(n, 1)]
    ELSE "nicht anwendbar"

\* C6: the derived data-flow is "übergreifend" for the competency
\* "Orientierungswissen", the label of stage d for a competency that starts
\* with "d." (d from 1 to 5) and "nicht anwendbar" for every other one, the
\* competency being whitespace-normalized; and the data-flow of every
\* extracted objective is the one derived from its final competency.
C6_DataFlowDerived ==
    /\ fn = "derive_data_flow" =>
          ret.data_flow = DataFlowFor(normalize_whitespace(arg.competency))
    /\ fn = "objective" =>
          ret.objective_data["data-flow"] =
              DataFlowFor(normalize_whitespace(ret.objective_data["competency"]))
    /\ fn = "extract_admonition_blocks" =>
          \A b \in Range(ret.blocks) : \A o \in Range(b["objectives"]) :
              o["data-flow"] = DataFlowFor(normalize_whitespace(o["competency"]))

\* the fifth stage has been derived from a competency with whitespace
\* before it
C6_Witness ==
    /\ fn = "derive_data_flow"
    /\ arg.competency = " 5."
    /\ ret.data_flow = "5 Publikation und Nachnutzung"

\* The value of the last of the parts that has the given key and a value,
\* "" if there is none.
LastValue(parts, key) ==
    LET hits == {i \in 1..Len(parts) : parts[i].key = key /\ parts[i].value # ""}
    IN  IF hits = {} THEN ""
        ELSE parts[CHOOSE i \in hits : \A j \in hits : i >= j].value

OrDefault(value, default) == IF value = "" THEN default ELSE value

\* C1 (as amended): an objective without an inline metadata comment gets the
\* default for each of the three fields, and the fields reported as missing,
\* by validate_objective_metadata and in the validation issue, are
\* competency and blooms-category, in this order; data-flow is not reported.
C1_NoCommentDefaults ==
    /\ fn = "objective" /\ arg.item.comment = None =>
          /\ ret.objective_data["competency"] = "nicht anwendbar"
          /\ ret.objective_data["blooms-category"] = "nicht anwendbar"
          /\ ret.objective_data["data-flow"] = "nicht anwendbar"
          /\ ret.missing_fields = <<"competency", "blooms-category">>
    /\ fn = "extract_admonition_blocks" =>
          /\ \A m \in Range(arg.content) : \A it \in Range(m.body.items) :
                m.title # "" /\ it.comment = None =>
                    \E issue \in Range(ret.issues) :
                        /\ issue.section = m.title
                        /\ issue.objective = it.text
                        /\ issue.missing_fields = <<"competency", "blooms-category">>
          /\ \A issue \in Range(ret.issues) : "data-flow" \notin Range(issue.missing_fields)

\* an objective without a comment has been validated
C1_Witness ==
    /\ fn = "objective"
    /\ arg.item.comment = None
    /\ ret.missing_fields # <<>>

\* C1 (as claimed): all three field names are reported as missing for an
\* objective without an inline metadata comment.
C1_Original ==
    fn = "objective" /\ arg.item.comment = None =>
        /\ \A f \in MetadataFields : ret.objective_data[f] = "nicht anwendbar"
        /\ MetadataFields \subseteq Range(ret.missing_fields)

\* C5 (as amended): the objective carries as competency the value of the
\* key competency and as blooms-category the value of the key blooms (of the
\* last part with that key and a value), parts with another key, the key
\* data-flow among them, with no colon or with no value contribute nothing,
\* and the data-flow is the one derived from the competency.
C5_CommentParsed ==
    fn = "objective" =>
        LET o == ret.objective_data
            competency == OrDefault(LastValue(arg.item.parts, "competency"),
                                    "nicht anwendbar")
        IN  /\ DOMAIN o = {"learning-objective"} \cup MetadataFields
            /\ o["competency"] = competency
            /\ o["blooms-category"] =
                  OrDefault(LastValue(arg.item.parts, "blooms"), "nicht anwendbar")
            /\ o["data-flow"] = DataFlowFor(competency)

\* a comment with the keys competency and data-flow has been parsed, and the
\* data-flow is not the one the comment gives
C5_Witness ==
    /\ fn = "objective"
    /\ LastValue(arg.item.parts, "competency") = "2.Something"
    /\ LastValue(arg.item.parts, "data-flow") = "4 Analyse"
    /\ ret.objective_data["data-flow"] = "2 Erhebung und Aufbereitung"

\* C5 (as claimed): the objective carries the values of the keys competency,
\* blooms and data-flow where the comment gives them.
C5_Original ==
    fn = "objective" =>
        LET o == ret.objective_data
            competency == LastValue(arg.item.parts, "competency")
            blooms     == LastValue(arg.item.parts, "blooms")
            data_flow  == LastValue(arg.item.parts, "data-flow")
        IN  /\ competency # "" => o["competency"] = competency
            /\ blooms # "" => o["blooms-category"] = blooms
            /\ data_flow # "" => o["data-flow"] = data_flow

\* The blocks of a document that have a parseable title line and a numbered
\* item.
Retained(content) ==
    LET Keep(m) == m.title # "" /\ m.body.items # <<>>
    IN  SelectSeq(content, Keep)

Tagged(section, title) == "chapter" \in DOMAIN section /\ section["chapter"] = title

\* The objectives of the first n sections that are tagged with the chapter,
\* in the order of the sections.
RECURSIVE ObjectivesFor(_, _, _)
ObjectivesFor(title, sections, n) ==
    IF n = 0 THEN <<>>
    ELSE ObjectivesFor(title, sections, n - 1)
         \o (IF Tagged(sections[n], title) THEN sections[n]["objectives"] ELSE <<>>)

\* The learning goal of the first section tagged with the chapter that has
\* one, "TODO" if there is none.
FirstGoalFor(title, sections) ==
    LET hits == {n \in 1..Len(sections) :
                    Tagged(sections[n], title) /\ "learning-goal" \in DOMAIN sections[n]}
    IN  IF hits = {} THEN "TODO" ELSE sections[Min(hits)]["learning-goal"]

\* The merge loop of the last run was reached.
Merged == run.save # "not_called"

ChaptersBefore ==
    IF "chapters" \in DOMAIN run.before.dict
    THEN run.before.dict["chapters"].items ELSE <<>>

ChaptersAfter == run.metadata.dict["chapters"].items

\* Chapter i of the metadata is a chapter object whose title is the chapter
\* of an extracted section.
Matched(i) ==
    /\ ChaptersBefore[i].kind = "dict"
    /\ "title" \in DOMAIN ChaptersBefore[i].dict
    /\ \E n \in 1..Len(run.sections) :
          Tagged(run.sections[n], ChaptersBefore[i].dict["title"])

\* C2: a chapter object whose title is the chapter of an extracted section
\* gets as learning-objectives the objectives of the sections tagged with
\* it, in document order, whatever it held before; a successful run saves
\* them.
C2_ObjectivesOverwritten ==
    Merged =>
        \A i \in 1..Len(ChaptersBefore) :
            Matched(i) =>
                /\ ChaptersAfter[i].dict["learning-objectives"] =
                      ObjectivesFor(ChaptersBefore[i].dict["title"], run.sections,
                                    Len(run.sections))
                /\ run.save = "ok" =>
                      metadataFile.dict["chapters"].items[i] = ChaptersAfter[i]

\* sections of the chapters Intro, Analyse and Intro have been merged into
\* chapters that held other objectives or none
C2_Witness ==
    /\ run.save = "ok"
    /\ Len(run.sections) = 3
    /\ Tagged(run.sections[1], "Intro")
    /\ Tagged(run.sections[2], "Analyse")
    /\ Tagged(run.sections[3], "Intro")
    /\ Len(run.sections[1]["objectives"]) = 2
    /\ Len(ChaptersBefore) = 6
    /\ ChaptersBefore[3].dict["learning-objectives"] = OldObjectives
    /\ Len(metadataFile.dict["chapters"].items[1].dict["learning-objectives"]) = 3
    /\ metadataFile.dict["chapters"].items[3].dict["learning-objectives"]
          = run.sections[2]["objectives"]

\* C9: a chapter object whose title is the chapter of an extracted section
\* gets as learning-goal the learning goal of the first section tagged with
\* it that has one, and "TODO" when none has one.
C9_FirstLearningGoal ==
    Merged =>
        \A i \in 1..Len(ChaptersBefore) :
            Matched(i) =>
                ChaptersAfter[i].dict["learning-goal"] =
                    FirstGoalFor(ChaptersBefore[i].dict["title"], run.sections)

\* a section without a learning goal and two with different ones, all of
\* the chapter Intro, have been merged: the goal is the second section's
C9_Witness ==
    /\ run.save = "ok"
    /\ Len(run.sections) = 3
    /\ \A n \in 1..3 : Tagged(run.sections[n], "Intro")
    /\ "learning-goal" \notin DOMAIN run.sections[1]
    /\ "learning-goal" \in DOMAIN run.sections[2]
    /\ "learning-goal" \in DOMAIN run.sections[3]
    /\ run.sections[2]["learning-goal"] # run.sections[3]["learning-goal"]
    /\ Len(ChaptersBefore) = 6
    /\ metadataFile.dict["chapters"].items[1].dict["learning-goal"]
          = run.sections[2]["learning-goal"]

MergedKeys == {"learning-goal", "learning-objectives"}

\* C10: the merge changes nothing but the learning-goal and the
\* learning-objectives of the chapter objects whose title is the chapter of
\* an extracted section: the other chapters, the other keys of these
\* chapters, the top-level keys and the number and order of the chapters are
\* as before, and the file is as before unless the metadata was saved.
C10_Frame ==
    run.result # "none" =>
        /\ metadataFile = IF run.save = "ok" THEN run.metadata ELSE run.before
        /\ Merged =>
              /\ DOMAIN run.metadata.dict = DOMAIN run.before.dict
              /\ \A k \in DOMAIN run.before.dict \ {"chapters"} :
                    run.metadata.dict[k] = run.before.dict[k]
              /\ "chapters" \in DOMAIN run.before.dict =>
                    /\ Len(ChaptersAfter) = Len(ChaptersBefore)
                    /\ \A i \in 1..Len(ChaptersBefore) :
                          IF Matched(i)
                          THEN /\ ChaptersAfter[i].kind = "dict"
                               /\ DOMAIN ChaptersAfter[i].dict =
                                     DOMAIN ChaptersBefore[i].dict \cup MergedKeys
                               /\ \A k \in DOMAIN ChaptersBefore[i].dict \ MergedKeys :
                                     ChaptersAfter[i].dict[k] = ChaptersBefore[i].dict[k]
                          ELSE ChaptersAfter[i] = ChaptersBefore[i]

\* a section without a chapter and a section of the chapter Intro have been
\* merged into a metadata with a chapter entry that is no mapping, one
\* without a title and one with the title ""
C10_Witness ==
    /\ run.save = "ok"
    /\ Len(run.sections) = 2
    /\ "chapter" \notin DOMAIN run.sections[1]
    /\ Tagged(run.sections[2], "Intro")
    /\ Len(ChaptersBefore) = 6
    /\ metadataFile # run.before
    /\ metadataFile.dict["chapters"].items[5] = Chapter("", "C. Autorin")

(***************************************************************************)
(* Properties of runs that follow each other (SpecRuns)                    *)
(***************************************************************************)
\* C3 (as amended): after a run that found a source file and wrote or
\* removed the report without an error, the report exists if and only if
\* the run found a validation issue; a run that finds no source file, or
\* fails to write or remove the report, leaves the report as it was.
C3_ReportFollowsIssues ==
    run.result # "none" =>
        IF run.found /\ run.report # "failed"
        THEN reportFile # None <=> run.issues # <<>>
        ELSE reportFile = run.reportBefore

\* a run with issues has written the report and the next run, without
\* issues, has removed it
C3_Witness ==
    /\ run.found
    /\ run.issues = <<>>
    /\ run.report = "removed"
    /\ run.reportBefore # None
    /\ reportFile = None

\* C3 (as claimed): after a run in which no file operation failed, the
\* report exists if and only if the run found a validation issue.
C3_Original ==
    run.result # "none" /\ run.report # "failed" =>
        (reportFile # None <=> run.issues # <<>>)

\* C4 (as amended): a run returns False (exit code 1) exactly when the
\* metadata it loads is not loadable, is empty or is no mapping, when saving
\* fails, or when an exception is raised and caught; every other run,
\* without a source file, with an unreadable one or without extracted
\* objectives among them, returns True (exit code 0).
C4_FailureCauses ==
    run.result # "none" =>
        /\ run.result = "False" <=>
              \/ run.loaded /\ run.before.kind # "dict"
              \/ run.loaded /\ run.before.kind = "dict" /\ DOMAIN run.before.dict = {}
              \/ run.save = "failed"
              \/ run.raised
        /\ run.exit_code = IF run.result = "True" THEN 0 ELSE 1
        /\ ~run.found => run.result = "True"
        /\ run.found /\ run.sections = <<>> /\ ~run.raised => run.result = "True"

\* a run has loaded a metadata that is an empty mapping and has failed
C4_Witness ==
    /\ run.result = "False"
    /\ run.loaded
    /\ run.before = YamlDict(EmptyDict)
    /\ run.save = "not_called"
    /\ ~run.raised

\* C4 (as claimed): a run returns False exactly when the metadata it loads
\* is not loadable or no mapping, when saving fails, or when an exception is
\* raised and caught.
C4_Original ==
    run.result # "none" =>
        (run.result = "False" <=>
            \/ run.loaded /\ run.before.kind # "dict"
            \/ run.save = "failed"
            \/ run.raised)

====
